---- MODULE Spec2Model ----
(***************************************************************************)
(* Model of src/src/main.rs: the tokenizer `lex` and the finite-state      *)
(* classifier `parse` that splits Java-like source text into               *)
(* SingleLineComment, BlockComment and Code elements.                      *)
(*                                                                         *)
(* Text is a sequence of characters; a character is a one-character        *)
(* string.  One step of the model is one iteration of the `for t in        *)
(* tokens` loop of parse; the last step is the return (or the panic).      *)
(***************************************************************************)
EXTENDS Integers, Sequences, FiniteSets, TLC

\* Longest input text that is explored.
MaxLen == 6

\* The characters inputs are drawn from: the four characters lex treats
\* specially, one ordinary character and the backslash.
Chars == {"*", "\n", "/", "\"", "a", "\\"}

Texts == UNION {[1..n -> Chars] : n \in 0..MaxLen}

(***************************************************************************)
(* enum Token                                                              *)
(***************************************************************************)
Star == <<"Star">>
NewLine == <<"NewLine">>
FrontSlash == <<"FrontSlash">>
DoubleQuote == <<"DoubleQuote">>
Char(c) == <<"Char", c>>

(***************************************************************************)
(* enum El                                                                 *)
(***************************************************************************)
ElSingleLineComment(s) == [kind |-> "SingleLineComment", text |-> s]
ElBlockComment(s) == [kind |-> "BlockComment", text |-> s]
ElCode(s) == [kind |-> "Code", text |-> s]

(***************************************************************************)
(* enum State                                                              *)
(***************************************************************************)
State == {"SingleLineComment", "BlockComment", "BlockCommentEnd",
          "Comment", "Code", "StrLiteral"}

(***************************************************************************)
(* fn lex: one token per character.                                        *)
(***************************************************************************)
\* lex without the arm for `/`.
lexChar_NoSlashArm(c) ==
    CASE c = "*" -> Star
      [] c = "\n" -> NewLine
      [] c = "\"" -> DoubleQuote
      [] OTHER -> Char(c)

lexChar(c) ==
    CASE c = "*" -> Star
      [] c = "\n" -> NewLine
      [] c = "/" -> FrontSlash
      [] c = "\"" -> DoubleQuote
      [] OTHER -> Char(c)

lex(input) == [i \in 1..Len(input) |-> lexChar(input[i])]

(***************************************************************************)
(* The locals of parse: state, built, parsed; panicked records that the    *)
(* panic! of the Comment arm was reached.                                  *)
(***************************************************************************)
Locals(st, b, p, pn) == [state |-> st, built |-> b, parsed |-> p, panicked |-> pn]

InitLocals == Locals("Code", <<>>, <<>>, FALSE)

\* The Code arm pushing the accumulator on `/` without clearing it.
StateCode_KeepsBuilt(m, t) ==
    CASE t = FrontSlash ->
            IF Len(m.built) > 0
            THEN Locals("Comment", m.built, Append(m.parsed, ElCode(m.built)), FALSE)
            ELSE Locals("Comment", m.built, m.parsed, FALSE)
      [] t = Star -> Locals("Code", Append(m.built, "*"), m.parsed, FALSE)
      [] t = NewLine -> Locals("Code", <<>>, Append(m.parsed, ElCode(m.built)), FALSE)
      [] t = DoubleQuote ->
            IF Len(m.built) > 0
            THEN Locals("StrLiteral", <<>>, Append(m.parsed, ElCode(m.built)), FALSE)
            ELSE Locals("StrLiteral", m.built, m.parsed, FALSE)
      [] OTHER -> Locals("Code", Append(m.built, t[2]), m.parsed, FALSE)

\* The Code arm pushing the accumulator on `/` without the length test.
StateCode_AlwaysFlushes(m, t) ==
    CASE t = FrontSlash -> Locals("Comment", <<>>, Append(m.parsed, ElCode(m.built)), FALSE)
      [] t = Star -> Locals("Code", Append(m.built, "*"), m.parsed, FALSE)
      [] t = NewLine -> Locals("Code", <<>>, Append(m.parsed, ElCode(m.built)), FALSE)
      [] t = DoubleQuote ->
            IF Len(m.built) > 0
            THEN Locals("StrLiteral", <<>>, Append(m.parsed, ElCode(m.built)), FALSE)
            ELSE Locals("StrLiteral", m.built, m.parsed, FALSE)
      [] OTHER -> Locals("Code", Append(m.built, t[2]), m.parsed, FALSE)

\* State::Code arm
StateCode(m, t) ==
    CASE t = FrontSlash ->
            IF Len(m.built) > 0
            THEN Locals("Comment", <<>>, Append(m.parsed, ElCode(m.built)), FALSE)
            ELSE Locals("Comment", m.built, m.parsed, FALSE)
      [] t = Star -> Locals("Code", Append(m.built, "*"), m.parsed, FALSE)
      [] t = NewLine -> Locals("Code", <<>>, Append(m.parsed, ElCode(m.built)), FALSE)
      [] t = DoubleQuote ->
            IF Len(m.built) > 0
            THEN Locals("StrLiteral", <<>>, Append(m.parsed, ElCode(m.built)), FALSE)
            ELSE Locals("StrLiteral", m.built, m.parsed, FALSE)
      [] OTHER -> Locals("Code", Append(m.built, t[2]), m.parsed, FALSE)

\* The Comment arm with the panic replaced by a resynchronisation: the
\* slash is taken for code and the token is dropped.
StateComment_Resyncs(m, t) ==
    CASE t = FrontSlash -> Locals("SingleLineComment", m.built, m.parsed, FALSE)
      [] t = Star -> Locals("BlockComment", m.built, m.parsed, FALSE)
      [] OTHER -> Locals("Code", m.built, m.parsed, FALSE)

\* State::Comment arm
StateComment(m, t) ==
    CASE t = FrontSlash -> Locals("SingleLineComment", m.built, m.parsed, FALSE)
      [] t = Star -> Locals("BlockComment", m.built, m.parsed, FALSE)
      [] OTHER -> Locals(m.state, m.built, m.parsed, TRUE)

\* The SingleLineComment arm dropping a `"`, as the BlockComment arm does.
StateSingleLineComment_DropsQuote(m, t) ==
    CASE t = NewLine ->
            Locals("Code", <<>>, Append(m.parsed, ElSingleLineComment(m.built)), FALSE)
      [] t = Star -> Locals("SingleLineComment", Append(m.built, "*"), m.parsed, FALSE)
      [] t = FrontSlash -> Locals("SingleLineComment", Append(m.built, "/"), m.parsed, FALSE)
      [] t = DoubleQuote -> Locals("SingleLineComment", m.built, m.parsed, FALSE)
      [] OTHER -> Locals("SingleLineComment", Append(m.built, t[2]), m.parsed, FALSE)

\* The SingleLineComment arm taking a `/` for a new opener.
StateSingleLineComment_SlashReopens(m, t) ==
    CASE t = NewLine ->
            Locals("Code", <<>>, Append(m.parsed, ElSingleLineComment(m.built)), FALSE)
      [] t = Star -> Locals("SingleLineComment", Append(m.built, "*"), m.parsed, FALSE)
      [] t = FrontSlash -> Locals("Comment", m.built, m.parsed, FALSE)
      [] t = DoubleQuote -> Locals("SingleLineComment", Append(m.built, "\""), m.parsed, FALSE)
      [] OTHER -> Locals("SingleLineComment", Append(m.built, t[2]), m.parsed, FALSE)

\* State::SingleLineComment arm
StateSingleLineComment(m, t) ==
    CASE t = NewLine ->
            Locals("Code", <<>>, Append(m.parsed, ElSingleLineComment(m.built)), FALSE)
      [] t = Star -> Locals("SingleLineComment", Append(m.built, "*"), m.parsed, FALSE)
      [] t = FrontSlash -> Locals("SingleLineComment", Append(m.built, "/"), m.parsed, FALSE)
      [] t = DoubleQuote -> Locals("SingleLineComment", Append(m.built, "\""), m.parsed, FALSE)
      [] OTHER -> Locals("SingleLineComment", Append(m.built, t[2]), m.parsed, FALSE)

\* The BlockComment arm appending the star it also holds back.
StateBlockComment_PushesStar(m, t) ==
    CASE t = Star -> Locals("BlockCommentEnd", Append(m.built, "*"), m.parsed, FALSE)
      [] t = FrontSlash -> Locals("BlockComment", Append(m.built, "/"), m.parsed, FALSE)
      [] t = DoubleQuote -> Locals("BlockComment", m.built, m.parsed, FALSE)
      [] t = NewLine -> Locals("BlockComment", Append(m.built, "\n"), m.parsed, FALSE)
      [] OTHER -> Locals("BlockComment", Append(m.built, t[2]), m.parsed, FALSE)

\* The BlockComment arm appending a `"` like any other character.
StateBlockComment_KeepsQuote(m, t) ==
    CASE t = Star -> Locals("BlockCommentEnd", m.built, m.parsed, FALSE)
      [] t = FrontSlash -> Locals("BlockComment", Append(m.built, "/"), m.parsed, FALSE)
      [] t = DoubleQuote -> Locals("BlockComment", Append(m.built, "\""), m.parsed, FALSE)
      [] t = NewLine -> Locals("BlockComment", Append(m.built, "\n"), m.parsed, FALSE)
      [] OTHER -> Locals("BlockComment", Append(m.built, t[2]), m.parsed, FALSE)

\* State::BlockComment arm
StateBlockComment(m, t) ==
    CASE t = Star -> Locals("BlockCommentEnd", m.built, m.parsed, FALSE)
      [] t = FrontSlash -> Locals("BlockComment", Append(m.built, "/"), m.parsed, FALSE)
      [] t = DoubleQuote -> Locals("BlockComment", m.built, m.parsed, FALSE)
      [] t = NewLine -> Locals("BlockComment", Append(m.built, "\n"), m.parsed, FALSE)
      [] OTHER -> Locals("BlockComment", Append(m.built, t[2]), m.parsed, FALSE)

\* The StrLiteral arm rejecting a newline inside a literal.
StateStrLiteral_PanicsOnNewLine(m, t) ==
    CASE t = DoubleQuote -> Locals("Code", <<>>, Append(m.parsed, ElCode(m.built)), FALSE)
      [] t = FrontSlash -> Locals("StrLiteral", Append(m.built, "/"), m.parsed, FALSE)
      [] t = Star -> Locals("StrLiteral", Append(m.built, "*"), m.parsed, FALSE)
      [] t = NewLine -> Locals(m.state, m.built, m.parsed, TRUE)
      [] OTHER -> Locals("StrLiteral", Append(m.built, t[2]), m.parsed, FALSE)

\* The StrLiteral arm taking a `/` for a comment opener.
StateStrLiteral_SlashOpensComment(m, t) ==
    CASE t = DoubleQuote -> Locals("Code", <<>>, Append(m.parsed, ElCode(m.built)), FALSE)
      [] t = FrontSlash -> Locals("Comment", m.built, m.parsed, FALSE)
      [] t = Star -> Locals("StrLiteral", Append(m.built, "*"), m.parsed, FALSE)
      [] t = NewLine -> Locals("StrLiteral", Append(m.built, "\n"), m.parsed, FALSE)
      [] OTHER -> Locals("StrLiteral", Append(m.built, t[2]), m.parsed, FALSE)

\* State::StrLiteral arm
StateStrLiteral(m, t) ==
    CASE t = DoubleQuote -> Locals("Code", <<>>, Append(m.parsed, ElCode(m.built)), FALSE)
      [] t = FrontSlash -> Locals("StrLiteral", Append(m.built, "/"), m.parsed, FALSE)
      [] t = Star -> Locals("StrLiteral", Append(m.built, "*"), m.parsed, FALSE)
      [] t = NewLine -> Locals("StrLiteral", Append(m.built, "\n"), m.parsed, FALSE)
      [] OTHER -> Locals("StrLiteral", Append(m.built, t[2]), m.parsed, FALSE)

\* The BlockCommentEnd arm forgetting to replay the held-back star before
\* a Char.
StateBlockCommentEnd_ForgetsStar(m, t) ==
    CASE t = FrontSlash ->
            Locals("Code", <<>>, Append(m.parsed, ElBlockComment(m.built)), FALSE)
      [] t = Star -> Locals("BlockComment", m.built \o <<"*", "*">>, m.parsed, FALSE)
      [] t = DoubleQuote -> Locals("BlockComment", m.built \o <<"*", "\"">>, m.parsed, FALSE)
      [] t = NewLine -> Locals("BlockComment", m.built \o <<"*", "\n">>, m.parsed, FALSE)
      [] OTHER -> Locals("BlockComment", Append(m.built, t[2]), m.parsed, FALSE)

\* State::BlockCommentEnd arm
StateBlockCommentEnd(m, t) ==
    CASE t = FrontSlash ->
            Locals("Code", <<>>, Append(m.parsed, ElBlockComment(m.built)), FALSE)
      [] t = Star -> Locals("BlockComment", m.built \o <<"*", "*">>, m.parsed, FALSE)
      [] t = DoubleQuote -> Locals("BlockComment", m.built \o <<"*", "\"">>, m.parsed, FALSE)
      [] t = NewLine -> Locals("BlockComment", m.built \o <<"*", "\n">>, m.parsed, FALSE)
      [] OTHER -> Locals("BlockComment", m.built \o <<"*", t[2]>>, m.parsed, FALSE)

\* The body of the token loop: `state = match state { ... }`.
LoopBody(m, t) ==
    CASE m.state = "Code" -> StateCode(m, t)
      [] m.state = "Comment" -> StateComment(m, t)
      [] m.state = "SingleLineComment" -> StateSingleLineComment(m, t)
      [] m.state = "BlockComment" -> StateBlockComment(m, t)
      [] m.state = "StrLiteral" -> StateStrLiteral(m, t)
      [] m.state = "BlockCommentEnd" -> StateBlockCommentEnd(m, t)

\* The outcome of a call: a returned Vec<El>, or a panic (no value).
Returned(p) == [kind |-> "returned", val |-> p]
Panicked == [kind |-> "panicked", val |-> <<>>]
Running == [kind |-> "running", val |-> <<>>]

\* The token loop of parse from locals m over toks[i..]; the fold stops at a
\* panic.
RECURSIVE RunLoop(_, _, _)
RunLoop(m, toks, i) ==
    IF m.panicked THEN m
    ELSE IF i > Len(toks) THEN m
    ELSE RunLoop(LoopBody(m, toks[i]), toks, i + 1)

\* fn parse as a function of its argument.
parse(toks) ==
    LET m == RunLoop(InitLocals, toks, 1)
    IN IF m.panicked THEN Panicked ELSE Returned(m.parsed)

(***************************************************************************)
(* One run of main on one input text.                                      *)
(*   input    the text read from the file                                  *)
(*   tokens   lex(input)                                                   *)
(*   pos      number of tokens the loop has consumed                       *)
(*   state, built, parsed   the locals of parse                            *)
(*   result   Running while in the loop, then Returned(parsed) or Panicked *)
(*   segStart index of the first token after the opener of the region the  *)
(*            parser is in (history variable, 0 before any opener)         *)
(*   prev     how the previous call of parse ended (history variable,      *)
(*            NoCall during the first call)                                *)
(***************************************************************************)
VARIABLES input, tokens, pos, state, built, parsed, result, segStart, prev

vars == <<input, tokens, pos, state, built, parsed, result, segStart, prev>>

NoCall == [state |-> "none", dirty |-> FALSE, panicked |-> FALSE]

Init ==
    /\ input \in Texts
    /\ tokens = lex(input)
    /\ pos = 0
    /\ state = InitLocals.state
    /\ built = InitLocals.built
    /\ parsed = InitLocals.parsed
    /\ result = Running
    /\ segStart = 0
    /\ prev = NoCall

\* The states in which text between an opener and a closer is collected.
Regions == {"SingleLineComment", "BlockComment", "StrLiteral"}

CurLocals == Locals(state, built, parsed, FALSE)

\* The loop is about to consume token pos + 1 in state s.
About(s) == result = Running /\ pos < Len(tokens) /\ state = s

NextTok == tokens[pos + 1]

\* The effect of one iteration whose match arm yields the locals m: the
\* panic! ends the call, anything else moves on to the next token.
Assign(m) ==
    /\ IF m.panicked
       THEN /\ result' = Panicked
            /\ UNCHANGED <<pos, state, built, parsed, segStart>>
       ELSE /\ pos' = pos + 1
            /\ state' = m.state
            /\ built' = m.built
            /\ parsed' = m.parsed
            /\ result' = Running
            /\ segStart' = IF state \in {"Code", "Comment"} /\ m.state \in Regions
                           THEN pos + 2 ELSE segStart
    /\ UNCHANGED <<input, tokens, prev>>

CodeStep ==
    /\ About("Code")
    /\ Assign(StateCode(CurLocals, NextTok))

CommentStep ==
    /\ About("Comment")
    /\ Assign(StateComment(CurLocals, NextTok))

SingleLineCommentStep ==
    /\ About("SingleLineComment")
    /\ Assign(StateSingleLineComment(CurLocals, NextTok))

BlockCommentStep ==
    /\ About("BlockComment")
    /\ Assign(StateBlockComment(CurLocals, NextTok))

StrLiteralStep ==
    /\ About("StrLiteral")
    /\ Assign(StateStrLiteral(CurLocals, NextTok))

BlockCommentEndStep ==
    /\ About("BlockCommentEnd")
    /\ Assign(StateBlockCommentEnd(CurLocals, NextTok))

\* The return with a flush of a non-empty accumulator as Code.
Return_Flushes ==
    /\ result = Running
    /\ pos = Len(tokens)
    /\ result' = Returned(IF built # <<>> THEN Append(parsed, ElCode(built)) ELSE parsed)
    /\ UNCHANGED <<input, tokens, pos, state, built, parsed, segStart, prev>>

\* The loop is exhausted: `parsed` is returned as it is.
Return ==
    /\ result = Running
    /\ pos = Len(tokens)
    /\ result' = Returned(parsed)
    /\ UNCHANGED <<input, tokens, pos, state, built, parsed, segStart, prev>>

Next ==
    \/ CodeStep
    \/ CommentStep
    \/ SingleLineCommentStep
    \/ BlockCommentStep
    \/ StrLiteralStep
    \/ BlockCommentEndStep
    \/ Return

Spec == Init /\ [][Next]_vars

(***************************************************************************)
(* Several calls of parse one after the other, as the tests make them:     *)
(* once a call has returned or panicked, parse is called again on the      *)
(* tokens of another text.                                                 *)
(***************************************************************************)
\* Longest text of the first call and of the calls after it.
MaxCallLen == 4
MaxNextLen == 2

CallTexts == UNION {[1..n -> Chars] : n \in 0..MaxCallLen}
NextTexts == UNION {[1..n -> Chars] : n \in 0..MaxNextLen}

InitCalls ==
    /\ input \in CallTexts
    /\ tokens = lex(input)
    /\ pos = 0
    /\ state = InitLocals.state
    /\ built = InitLocals.built
    /\ parsed = InitLocals.parsed
    /\ result = Running
    /\ segStart = 0
    /\ prev = NoCall

\* A call whose accumulator is not a fresh local: it starts with what the
\* previous call left in it.
Call_KeepsAccumulator ==
    /\ result # Running
    /\ prev' = [state |-> state, dirty |-> built # <<>>, panicked |-> result = Panicked]
    /\ input' \in NextTexts
    /\ tokens' = lex(input')
    /\ pos' = 0
    /\ state' = InitLocals.state
    /\ built' = built
    /\ parsed' = InitLocals.parsed
    /\ result' = Running
    /\ segStart' = 0

\* Entry to parse: state, built and parsed are new locals of the call.
Call ==
    /\ result # Running
    /\ prev' = [state |-> state, dirty |-> built # <<>>, panicked |-> result = Panicked]
    /\ input' \in NextTexts
    /\ tokens' = lex(input')
    /\ pos' = 0
    /\ state' = InitLocals.state
    /\ built' = InitLocals.built
    /\ parsed' = InitLocals.parsed
    /\ result' = Running
    /\ segStart' = 0

NextCalls ==
    \/ CodeStep
    \/ CommentStep
    \/ SingleLineCommentStep
    \/ BlockCommentStep
    \/ StrLiteralStep
    \/ BlockCommentEndStep
    \/ Return
    \/ Call

SpecCalls == InitCalls /\ [][NextCalls]_vars

TypeOK ==
    /\ state \in State
    /\ pos \in 0..Len(tokens)
    /\ result.kind \in {"running", "returned", "panicked"}

(***************************************************************************)
(* Helpers for the properties.                                             *)
(***************************************************************************)
Contains(s, c) == \E i \in 1..Len(s) : s[i] = c

\* The characters of the input at positions i..j.
Between(i, j) == SubSeq(input, i, j)

Emitted(e) == parsed' = Append(parsed, e)

(***************************************************************************)
(* C1: after the opener `/` `*` consumed from Code, the first later        *)
(* position where a Star is immediately followed by a FrontSlash closes    *)
(* the comment: that FrontSlash emits a BlockComment and the state becomes *)
(* Code.                                                                   *)
(***************************************************************************)
FirstStarSlash ==
    /\ result = Running
    /\ state \in {"BlockComment", "BlockCommentEnd"}
    /\ pos < Len(tokens)
    /\ pos >= segStart
    /\ tokens[pos] = Star
    /\ NextTok = FrontSlash
    /\ \A k \in segStart..(pos - 1) : ~(tokens[k] = Star /\ tokens[k + 1] = FrontSlash)

C1_FirstStarSlashCloses ==
    [][FirstStarSlash =>
          /\ state' = "Code"
          /\ Len(parsed') = Len(parsed) + 1
          /\ parsed'[Len(parsed')].kind = "BlockComment"]_vars

(***************************************************************************)
(* C2 (as stated): a DoubleQuote consumed in SingleLineComment,            *)
(* BlockComment or BlockCommentEnd never moves the parser into StrLiteral, *)
(* and no SingleLineComment or BlockComment element contains `"`.          *)
(***************************************************************************)
QuoteInComment ==
    /\ result = Running
    /\ pos < Len(tokens)
    /\ state \in {"SingleLineComment", "BlockComment", "BlockCommentEnd"}
    /\ NextTok = DoubleQuote

C2_NoQuoteInCommentText ==
    /\ [][QuoteInComment => state' \in {"SingleLineComment", "BlockComment"}]_vars
    /\ [](\A i \in 1..Len(parsed) :
             parsed[i].kind \in {"SingleLineComment", "BlockComment"}
                => ~Contains(parsed[i].text, "\""))

(***************************************************************************)
(* C2 (amended): a DoubleQuote consumed inside a comment never moves the   *)
(* parser into StrLiteral and emits nothing; it is dropped only in state   *)
(* BlockComment, it is appended as `"` in SingleLineComment and as `*"` in *)
(* BlockCommentEnd.                                                        *)
(***************************************************************************)
C2_QuoteInCommentKeepsMode ==
    [][QuoteInComment =>
          /\ parsed' = parsed
          /\ state' = IF state = "SingleLineComment" THEN "SingleLineComment"
                      ELSE "BlockComment"
          /\ built' = CASE state = "SingleLineComment" -> Append(built, "\"")
                        [] state = "BlockComment" -> built
                        [] state = "BlockCommentEnd" -> built \o <<"*", "\"">>]_vars

\* A quote has been consumed in a line comment, which was then closed and
\* returned with the quote in its text.
C2_Witness ==
    /\ result.kind = "returned"
    /\ \E i \in 1..Len(parsed) :
          parsed[i].kind = "SingleLineComment" /\ Contains(parsed[i].text, "\"")

(***************************************************************************)
(* C3: in state Comment a NewLine, DoubleQuote or Char token makes parse   *)
(* panic on that token: nothing is returned and no later token is          *)
(* consumed.                                                               *)
(***************************************************************************)
MalformedOpener == About("Comment") /\ NextTok \notin {FrontSlash, Star}

C3_MalformedOpenerAborts ==
    /\ [][MalformedOpener => result' = Panicked /\ pos' = pos]_vars
    /\ [](result = Panicked => ~ENABLED Next)

C3_Witness ==
    /\ result = Panicked
    /\ state = "Comment"
    /\ pos >= 2
    /\ NextTok \in {NewLine, DoubleQuote, Char("a")}

(***************************************************************************)
(* C4: an input that ends right after a FrontSlash consumed in Code state  *)
(* (the loop is exhausted in state Comment) is not accepted: parse does    *)
(* not return a segment list.                                              *)
(***************************************************************************)
C4_TrailingSlashFails ==
    (pos = Len(tokens) /\ state = "Comment") => result.kind # "returned"

(***************************************************************************)
(* C5: round trip: when parse returns, rendering the elements in order     *)
(* (`//` text newline, `/*` text `*/`, text newline, the last Code element *)
(* with or without its newline) gives back the input.                      *)
(***************************************************************************)
RenderEl(e, atEof) ==
    CASE e.kind = "SingleLineComment" -> <<"/", "/">> \o e.text \o <<"\n">>
      [] e.kind = "BlockComment" -> <<"/", "*">> \o e.text \o <<"*", "/">>
      [] e.kind = "Code" -> IF atEof THEN e.text ELSE e.text \o <<"\n">>

RECURSIVE Render(_, _)
Render(segs, eofLast) ==
    IF segs = <<>> THEN <<>>
    ELSE RenderEl(Head(segs), eofLast /\ Len(segs) = 1) \o Render(Tail(segs), eofLast)

C5_RoundTrip ==
    result.kind = "returned"
        => input \in {Render(result.val, TRUE), Render(result.val, FALSE)}

(***************************************************************************)
(* C6: for an input without `/` and `"`, parse returns exactly one Code    *)
(* element per line, in order, each holding the line without its newline,  *)
(* a last line without newline included.                                   *)
(***************************************************************************)
FirstNewLine(t) ==
    IF Contains(t, "\n")
    THEN CHOOSE k \in 1..Len(t) : t[k] = "\n" /\ \A j \in 1..(k - 1) : t[j] # "\n"
    ELSE 0

RECURSIVE Lines(_)
Lines(t) ==
    IF t = <<>> THEN <<>>
    ELSE LET k == FirstNewLine(t)
         IN IF k = 0 THEN <<t>>
            ELSE <<SubSeq(t, 1, k - 1)>> \o Lines(SubSeq(t, k + 1, Len(t)))

C6_OneCodePerLine ==
    (result.kind = "returned" /\ ~Contains(input, "/") /\ ~Contains(input, "\""))
        => result.val = [i \in 1..Len(Lines(input)) |-> ElCode(Lines(input)[i])]

(***************************************************************************)
(* C7: after `//` consumed from Code, every token before the first NewLine *)
(* is appended verbatim and the state stays SingleLineComment; that        *)
(* NewLine emits exactly one SingleLineComment whose text is exactly the   *)
(* input characters between the `//` and the newline, and the state        *)
(* becomes Code.                                                           *)
(***************************************************************************)
C7_LineCommentContent ==
    /\ [][About("SingleLineComment") =>
            IF NextTok = NewLine
            THEN /\ Emitted(ElSingleLineComment(Between(segStart, pos)))
                 /\ state' = "Code"
                 /\ built' = <<>>
            ELSE /\ state' = "SingleLineComment"
                 /\ parsed' = parsed
                 /\ built' = Append(built, input[pos + 1])]_vars
    /\ [](state = "SingleLineComment" =>
            /\ segStart >= 3
            /\ tokens[segStart - 2] = FrontSlash
            /\ tokens[segStart - 1] = FrontSlash
            /\ built = Between(segStart, pos)
            /\ ~Contains(built, "\n"))

\* `///*` followed by a newline has been classified as one line comment.
C7_Witness ==
    /\ result.kind = "returned"
    /\ \E i \in 1..Len(parsed) : parsed[i] = ElSingleLineComment(<<"/", "*">>)

(***************************************************************************)
(* C8: when a block comment whose body holds no `"` is closed, the emitted *)
(* BlockComment text is exactly the input characters between the `/*` and  *)
(* the `*/` the parser closes on; while the comment is open the            *)
(* accumulator is exactly the body consumed so far, minus the one star     *)
(* held back in BlockCommentEnd.                                           *)
(***************************************************************************)
QuoteFree(i, j) == ~Contains(Between(i, j), "\"")

C10_CodeIdempotent ==
    \A i \in 1..Len(parsed) :
        (parsed[i].kind = "Code" /\ ~Contains(parsed[i].text, "/"))
            => parse(lex(parsed[i].text)) = Returned(<<parsed[i]>>)

(***************************************************************************)
(* C11: in StrLiteral a DoubleQuote whose immediately preceding token is   *)
(* Char('\') does not close the literal: no Code element is emitted and    *)
(* the state stays StrLiteral.                                             *)
(***************************************************************************)
EscapedQuote ==
    /\ About("StrLiteral")
    /\ NextTok = DoubleQuote
    /\ pos >= segStart
    /\ tokens[pos] = Char("\\")

C11_EscapedQuoteKeepsLiteral ==
    [][EscapedQuote => state' = "StrLiteral" /\ parsed' = parsed]_vars

(***************************************************************************)
(* C12: lex yields exactly one token per input character, in order, with   *)
(* `*` -> Star, newline -> NewLine, `/` -> FrontSlash, `"` -> DoubleQuote  *)
(* and any other c -> Char(c); mapping the tokens back to characters gives *)
(* the input, and Char never carries one of the four special characters.   *)
(***************************************************************************)
Special == {"*", "\n", "/", "\""}

\* The character a token stands for.
TokenChar(t) ==
    IF Len(t) = 2 THEN t[2]
    ELSE CASE t[1] = "Star" -> "*"
           [] t[1] = "NewLine" -> "\n"
           [] t[1] = "FrontSlash" -> "/"
           [] t[1] = "DoubleQuote" -> "\""

C12_LexOneTokenPerChar ==
    /\ Len(tokens) = Len(input)
    /\ [i \in 1..Len(tokens) |-> TokenChar(tokens[i])] = input
    /\ \A i \in 1..Len(input) :
          /\ (input[i] = "*") <=> (tokens[i] = Star)
          /\ (input[i] = "\n") <=> (tokens[i] = NewLine)
          /\ (input[i] = "/") <=> (tokens[i] = FrontSlash)
          /\ (input[i] = "\"") <=> (tokens[i] = DoubleQuote)
          /\ (input[i] \notin Special) <=> (tokens[i] = Char(input[i]))
          /\ tokens[i][1] = "Char" => tokens[i][2] \notin Special

\* An input holding all five kinds of token has been tokenized and parse
\* has gone through it.
C12_Witness ==
    /\ result.kind = "returned"
    /\ \A t \in {Star, NewLine, FrontSlash, DoubleQuote, Char("a")} :
          \E i \in 1..Len(tokens) : tokens[i] = t

(***************************************************************************)
(* C13: end of input does not flush: the return hands back exactly the     *)
(* elements emitted by earlier tokens, whatever the state and the          *)
(* accumulator are; an element is emitted only by a token: NewLine in Code *)
(* or SingleLineComment, FrontSlash in BlockCommentEnd, DoubleQuote in     *)
(* StrLiteral (the region's own flush), or FrontSlash or DoubleQuote in    *)
(* Code, which flush the Code run before the opener.                       *)
(***************************************************************************)
FlushingToken ==
    \/ state \in {"Code", "SingleLineComment"} /\ NextTok = NewLine
    \/ state = "BlockCommentEnd" /\ NextTok = FrontSlash
    \/ state = "StrLiteral" /\ NextTok = DoubleQuote
    \/ state = "Code" /\ NextTok \in {FrontSlash, DoubleQuote} /\ built # <<>>

C13_NoFlushAtEnd ==
    /\ [][(result = Running /\ result' # Running /\ result' # Panicked) =>
            /\ pos = Len(tokens)
            /\ result' = Returned(parsed)
            /\ parsed' = parsed]_vars
    /\ [][parsed' # parsed => (result = Running /\ pos < Len(tokens) /\ FlushingToken)]_vars
    /\ [](result.kind = "returned" => result.val = parsed)

\* parse has returned from an unterminated line comment: its text is in the
\* accumulator and not in the result.
C13_Witness ==
    /\ result.kind = "returned"
    /\ state = "SingleLineComment"
    /\ built # <<>>
    /\ \A i \in 1..Len(result.val) : result.val[i].kind # "SingleLineComment"

(***************************************************************************)
(* C14: the step function of parse is the state transition table of the    *)
(* specification: same next state, same characters appended, same element  *)
(* emitted for each of the 6 states and 5 token kinds, Comment with        *)
(* NewLine, DoubleQuote or Char being the only pairs without a successor;  *)
(* run side by side from (Code, empty, empty) the two agree after every    *)
(* token.                                                                  *)
(***************************************************************************)
Row(nxt, app, emit) == [fails |-> FALSE, next |-> nxt, app |-> app, emit |-> emit]
NoRow == [fails |-> TRUE, next |-> "Comment", app |-> <<>>, emit |-> "none"]

\* The table, one line per state, one column per token kind; c is the
\* character of a Char token.
TableRow(s, k, c) ==
    CASE s = "Code" ->
           (CASE k = "Star" -> Row("Code", <<"*">>, "none")
              [] k = "NewLine" -> Row("Code", <<>>, "Code")
              [] k = "FrontSlash" -> Row("Comment", <<>>, "CodeIfNonEmpty")
              [] k = "DoubleQuote" -> Row("StrLiteral", <<>>, "CodeIfNonEmpty")
              [] k = "Char" -> Row("Code", <<c>>, "none"))
      [] s = "Comment" ->
           (CASE k = "Star" -> Row("BlockComment", <<>>, "none")
              [] k = "FrontSlash" -> Row("SingleLineComment", <<>>, "none")
              [] OTHER -> NoRow)
      [] s = "SingleLineComment" ->
           (CASE k = "Star" -> Row(s, <<"*">>, "none")
              [] k = "NewLine" -> Row("Code", <<>>, "SingleLineComment")
              [] k = "FrontSlash" -> Row(s, <<"/">>, "none")
              [] k = "DoubleQuote" -> Row(s, <<"\"">>, "none")
              [] k = "Char" -> Row(s, <<c>>, "none"))
      [] s = "BlockComment" ->
           (CASE k = "Star" -> Row("BlockCommentEnd", <<>>, "none")
              [] k = "NewLine" -> Row(s, <<"\n">>, "none")
              [] k = "FrontSlash" -> Row(s, <<"/">>, "none")
              [] k = "DoubleQuote" -> Row(s, <<>>, "none")
              [] k = "Char" -> Row(s, <<c>>, "none"))
      [] s = "BlockCommentEnd" ->
           (CASE k = "Star" -> Row("BlockComment", <<"*", "*">>, "none")
              [] k = "NewLine" -> Row("BlockComment", <<"*", "\n">>, "none")
              [] k = "FrontSlash" -> Row("Code", <<>>, "BlockComment")
              [] k = "DoubleQuote" -> Row("BlockComment", <<"*", "\"">>, "none")
              [] k = "Char" -> Row("BlockComment", <<"*", c>>, "none"))
      [] s = "StrLiteral" ->
           (CASE k = "Star" -> Row(s, <<"*">>, "none")
              [] k = "NewLine" -> Row(s, <<"\n">>, "none")
              [] k = "FrontSlash" -> Row(s, <<"/">>, "none")
              [] k = "DoubleQuote" -> Row("Code", <<>>, "Code")
              [] k = "Char" -> Row(s, <<c>>, "none"))

\* One step of the table machine.
TableStep(m, t) ==
    LET r == TableRow(m.state, t[1], TokenChar(t))
        flush == r.emit \notin {"none", "CodeIfNonEmpty"}
                    \/ (r.emit = "CodeIfNonEmpty" /\ m.built # <<>>)
        kind == IF r.emit = "CodeIfNonEmpty" THEN "Code" ELSE r.emit
    IN IF r.fails THEN [m EXCEPT !.panicked = TRUE]
       ELSE IF flush
            THEN [state |-> r.next, built |-> <<>>,
                  parsed |-> m.parsed \o <<[kind |-> kind, text |-> m.built]>>,
                  panicked |-> FALSE]
            ELSE [state |-> r.next, built |-> m.built \o r.app,
                  parsed |-> m.parsed, panicked |-> FALSE]

\* The table machine run over the first n tokens.
RECURSIVE TableRun(_)
TableRun(n) ==
    IF n = 0 THEN [state |-> "Code", built |-> <<>>, parsed |-> <<>>, panicked |-> FALSE]
    ELSE LET m == TableRun(n - 1)
         IN IF m.panicked THEN m ELSE TableStep(m, tokens[n])

C14_StepIsTable ==
    /\ [][(result = Running /\ pos < Len(tokens)) =>
            LET m == TableStep(CurLocals, NextTok)
            IN /\ m.panicked <=> (state = "Comment" /\ NextTok \notin {Star, FrontSlash})
               /\ m.panicked <=> (result' = Panicked)
               /\ ~m.panicked =>
                     state' = m.state /\ built' = m.built /\ parsed' = m.parsed]_vars
    /\ [](result # Panicked => CurLocals = TableRun(pos))
    /\ [](result = Panicked => TableRun(pos + 1).panicked)

\* `/*a*/` and a newline have been run to the end: all of Code, Comment,
\* BlockComment and BlockCommentEnd were stepped through.
C14_Witness ==
    /\ result.kind = "returned"
    /\ parsed = <<ElBlockComment(<<"a">>), ElCode(<<>>)>>

(***************************************************************************)
(* C15: in Code a FrontSlash or DoubleQuote emits a Code element only when *)
(* the accumulator is non-empty, a NewLine always emits one; hence an      *)
(* empty Code element is emitted only by a NewLine consumed in Code with   *)
(* an empty accumulator or by a DoubleQuote closing an empty string        *)
(* literal.                                                                *)
(***************************************************************************)
C15_EmptyCodeElements ==
    /\ [][(About("Code") /\ NextTok \in {FrontSlash, DoubleQuote}) =>
            IF built = <<>> THEN parsed' = parsed /\ state' # "Code"
            ELSE Emitted(ElCode(built))]_vars
    /\ [][(About("Code") /\ NextTok = NewLine) => Emitted(ElCode(built))]_vars
    /\ [][(Len(parsed') > Len(parsed) /\ parsed'[Len(parsed')] = ElCode(<<>>)) =>
            /\ built = <<>>
            /\ \/ state = "Code" /\ NextTok = NewLine
               \/ state = "StrLiteral" /\ NextTok = DoubleQuote]_vars
    /\ [](\A i \in 1..Len(parsed) :
             parsed[i] = ElCode(<<>>) =>
                \E k \in 1..pos :
                   \/ tokens[k] = NewLine
                   \/ k > 1 /\ tokens[k] = DoubleQuote /\ tokens[k - 1] = DoubleQuote)

\* `//`, newline, `""`, newline: the empty string literal and the newline
\* after it have each given an empty Code element, and the `/` consumed in
\* Code with an empty accumulator gave none.
C15_Witness ==
    /\ result.kind = "returned"
    /\ Len(parsed) = 3
    /\ parsed[1].kind = "SingleLineComment"
    /\ parsed[2] = ElCode(<<>>)
    /\ parsed[3] = ElCode(<<>>)
    /\ tokens[pos] = NewLine
    /\ tokens[pos - 1] = DoubleQuote

(***************************************************************************)
(* C16: parse panics only on a token consumed in state Comment; in every   *)
(* other state every token has a successor, so a run in which each         *)
(* FrontSlash consumed in Code is followed by a FrontSlash or a Star goes  *)
(* on to the end of the tokens and returns.                                *)
(***************************************************************************)
C16_AbortOnlyInComment ==
    /\ [][(result = Running /\ result' = Panicked) =>
            /\ state = "Comment"
            /\ tokens[pos] = FrontSlash
            /\ NextTok \notin {FrontSlash, Star}]_vars
    /\ [][(result = Running /\ pos < Len(tokens)
             /\ ~(state = "Comment" /\ NextTok \notin {FrontSlash, Star})) =>
            pos' = pos + 1 /\ result' = Running]_vars
    /\ [](result = Running => ENABLED Next)
    /\ [](result.kind = "returned" => pos = Len(tokens) /\ parse(tokens) = result)
    /\ [](result = Panicked => state = "Comment" /\ parse(tokens) = Panicked)

\* A run through a block comment and into a string literal has returned.
C16_Witness ==
    /\ result.kind = "returned"
    /\ state = "StrLiteral"
    /\ built # <<>>
    /\ \E i \in 1..Len(parsed) : parsed[i].kind = "BlockComment"

(***************************************************************************)
(* C17: the accumulator is empty right after any element is emitted,       *)
(* whenever the state is Comment, and on entry (through the opener) to     *)
(* SingleLineComment, BlockComment and StrLiteral; the text of an emitted  *)
(* element is the accumulator collected since then.                        *)
(***************************************************************************)
C17_AccumulatorHygiene ==
    /\ [][parsed' # parsed =>
            /\ built' = <<>>
            /\ parsed'[Len(parsed')].text = built]_vars
    /\ [](state = "Comment" => built = <<>>)
    /\ [][(state \in {"Code", "Comment"} /\ state' \in Regions) => built' = <<>>]_vars
    /\ []((state \in Regions /\ pos = segStart - 1) => built = <<>>)

\* `a//`: Code(a) has been emitted on the first slash and the line comment
\* has just been entered.
C17_Witness ==
    /\ result = Running
    /\ state = "SingleLineComment"
    /\ pos = segStart - 1
    /\ parsed = <<ElCode(<<"a">>)>>

(***************************************************************************)
(* C18: after any prefix of the tokens, the texts of the emitted elements  *)
(* followed by the accumulator (and one `*` in BlockCommentEnd) are a      *)
(* subsequence of the characters consumed so far, in order; a token emits  *)
(* at most one element and emitted elements are never changed or removed.  *)
(***************************************************************************)
RECURSIVE Flatten(_)
Flatten(segs) ==
    IF segs = <<>> THEN <<>> ELSE Head(segs).text \o Flatten(Tail(segs))

\* a is a subsequence of b (leftmost matching).
RECURSIVE IsSubseq(_, _)
IsSubseq(a, b) ==
    IF a = <<>> THEN TRUE
    ELSE IF b = <<>> THEN FALSE
    ELSE IF Head(a) = Head(b) THEN IsSubseq(Tail(a), Tail(b))
    ELSE IsSubseq(a, Tail(b))

Pending == built \o (IF state = "BlockCommentEnd" THEN <<"*">> ELSE <<>>)

C18_TextConserved ==
    /\ [](IsSubseq(Flatten(parsed) \o Pending, SubSeq(input, 1, pos)))
    /\ [][/\ Len(parsed') <= Len(parsed) + 1
          /\ SubSeq(parsed', 1, Len(parsed)) = parsed]_vars

\* A Code element and a comment, both with text, have been emitted and
\* returned, the delimiters between them dropped.
C18_Witness ==
    /\ result.kind = "returned"
    /\ \E i, j \in 1..Len(parsed) :
          /\ i < j
          /\ parsed[i].kind = "Code" /\ parsed[i].text # <<>>
          /\ parsed[j].kind # "Code" /\ parsed[j].text # <<>>
    /\ Len(Flatten(parsed)) < pos

(***************************************************************************)
(* C19: every call of parse starts from state Code with an empty           *)
(* accumulator and an empty output, so its outcome depends on its tokens   *)
(* alone: whatever state, accumulator or panic the previous call ended     *)
(* with, the call returns parse(tokens), or panics when parse(tokens)      *)
(* does.                                                                   *)
(***************************************************************************)
C19_CallsIndependent ==
    /\ [][(result # Running /\ result' = Running) =>
            /\ pos' = 0
            /\ state' = "Code"
            /\ built' = <<>>
            /\ parsed' = <<>>]_vars
    /\ [](result = Running =>
            CurLocals = RunLoop(InitLocals, SubSeq(tokens, 1, pos), 1))
    /\ [](result # Running => result = parse(tokens))

\* A call made after a call that ended inside a string literal with text
\* in its accumulator has returned an element.
C19_Witness ==
    /\ result.kind = "returned"
    /\ parsed # <<>>
    /\ prev.state = "StrLiteral"
    /\ prev.dirty

====
